---- MODULE Spec2Model ----
(***************************************************************************)
(* Typing-session data capture of elephantype.                             *)
(*                                                                         *)
(*   dataCapture.ts   initializeSession, recordKeystroke, finalizeSession, *)
(*                    generateSessionData (pure functions over records)    *)
(*   useTypingData.ts the React hook that keeps a session in five state    *)
(*                    cells and exposes captureKeystroke / completeSession *)
(*   TypingTest.tsx   the typing page: text, input, timer and its effects  *)
(*   TypingStats      the retry flow of the statistics page                *)
(*                                                                         *)
(* React state is modelled by two copies of the hook's state cells:        *)
(*   st  the values of the last committed render: what the callbacks       *)
(*       created by that render close over;                                *)
(*   nx  st with every queued setState applied in call order: what the     *)
(*       next render will commit.                                          *)
(* A setState(value) writes the cell of nx, a functional setState(f)       *)
(* applies f to the cell of nx, and a render copies nx to st.              *)
(*                                                                         *)
(* A nullable value (T | null) is a sequence of length 0 or 1.             *)
(*                                                                         *)
(* Five specifications:                                                    *)
(*   Spec        the hook under renders, prompt changes and handler calls; *)
(*               Date.now() does not step back between two reads;          *)
(*   LibSpec     a driver calling the dataCapture functions directly, in   *)
(*               any order; every Date.now() read may return any clock     *)
(*               value (a wall clock that is adjusted between two reads);  *)
(*   MetricsSpec calculateMetrics over the logs recordKeystroke builds for *)
(*               sessions of every duration;                               *)
(*   PageSpec    the TypingTest component under keydown events, the reset  *)
(*               button, its effects and renders;                          *)
(*   StatsSpec   the TypingStats component under responses of the server   *)
(*               and its retry timers.                                     *)
(*                                                                         *)
(* Numbers: counts, clock values and delays are integers.  accuracy and    *)
(* errorRate are binary64 values, computed with the rounding of the        *)
(* language.  wpm and the variance under consistency are exact fractions:  *)
(* the rounding of these two, and of Math.sqrt, is not followed.           *)
(***************************************************************************)
EXTENDS Integers, Sequences, FiniteSets, TLC

VARIABLES
    textPrompt,   \* the hook's argument at the last render
    st,           \* committed hook state (closure values)
    nx,           \* pending hook state (queued updates applied)
    now,          \* the value Date.now() returned at its last read
    nextId,       \* uuidv4(): the next unused identifier
    storage,      \* localStorage: the sessionIds a session record is saved under
    result,       \* what the call made last returned (null when it returned nothing)
    captured,     \* ids of the records made by captureKeystroke for the pending session
    lastOp,       \* the last operation and its arguments
    drv,          \* state of a driver that calls the dataCapture functions directly
    page,         \* the TypingTest component: rendered state, queued state, effects to run
    stats         \* the TypingStats component: state cells, fetch in flight, timers armed

vars == <<textPrompt, st, nx, now, nextId, storage, result, captured, lastOp, drv,
          page, stats>>

hookVars == <<textPrompt, st, nx, storage, captured>>

componentVars == <<page, stats>>

\* ---------------------------------------------------------------- bounds
MaxTime == 2
MaxIds == 3
MaxLog == 3
MaxInput == 3
MaxTimers == 2

\* ---------------------------------------------------------------- values
None == <<>>
Some(v) == <<v>>
Has(o) == Len(o) = 1
Val(o) == o[1]

Clock == 1..MaxTime
Prompts == {"ab", "cd"}
Transcripts == {"ab"}
Outcomes == {"completed", "abandoned"}

\* identifiers 1..MaxIds go to sessions and keystrokes alike; the hook's last session
\* may still log one keystroke
MaxKeystrokeId == MaxIds + 1

\* key, expectedKey, position, actionType of the key event delivered to the hook
HookKeyEvents == { <<"a", Some("a"), 0, "keypress">> }

\* key events passed to recordKeystroke by a direct caller
KeyEvents ==
    { <<"a", Some("a"), 0, "keypress">>,
      <<"Backspace", None, 1, "keydown">> }

\* key events fed to recordKeystroke when the metrics are computed: a right key, a
\* wrong key, a key typed where nothing is expected, a control key, and a wrong key
\* under the other action type
MetricEvents ==
    { <<"a", Some("a"), 0, "keypress">>,
      <<"b", Some("a"), 1, "keypress">>,
      <<"a", None, 2, "keypress">>,
      <<"Backspace", None, 1, "keypress">>,
      <<"b", Some("a"), 1, "keydown">> }

\* JavaScript truthiness of a nullable number: null and 0 are falsy
TruthyNum(o) == Has(o) /\ Val(o) # 0

\* ---------------------------------------------------------------- numbers
\* A JavaScript number that need not be an integer is an IEEE 754 binary64 value:
\* zero, or m * 2^(x - 52) with 2^52 <= m < 2^53, held as the exponent x and the
\* Precision bits of m in limbs of LimbBits bits, leading limb first.  Exact
\* intermediate results are held in WideLimbs limbs and rounded to nearest, ties to
\* even, as every operation of the language does.
Precision == 53
LimbBits == 18
WideLimbs == 6

Base == 2^LimbBits

NumZero == [x |-> 0, m |-> <<>>]

IsZero(d) == d.m = <<>>

Limb(w, i) == IF i \in 1..Len(w) THEN w[i] ELSE 0

WideZero == [i \in 1..WideLimbs |-> 0]

\* a limb sequence as WideLimbs limbs
Wide(w) == [i \in 1..WideLimbs |-> Limb(w, i - (WideLimbs - Len(w)))]

\* w * 2^d and floor(w / 2^d) on WideLimbs limbs
Shl(w, d) ==
    LET q == d \div LimbBits
        s == d % LimbBits
    IN  [i \in 1..WideLimbs |->
            (Limb(w, i + q) % 2^(LimbBits - s)) * 2^s
            + Limb(w, i + q + 1) \div 2^(LimbBits - s)]

Shr(w, d) ==
    LET q == d \div LimbBits
        s == d % LimbBits
    IN  [i \in 1..WideLimbs |->
            Limb(w, i - q) \div 2^s
            + (Limb(w, i - q - 1) % 2^s) * 2^(LimbBits - s)]

\* the number of bits of w, w not zero
BitLen(w) ==
    LET i == CHOOSE j \in 1..WideLimbs : w[j] # 0 /\ \A k \in 1..(j - 1) : w[k] = 0
        l == CHOOSE k \in 1..LimbBits : 2^(k - 1) <= w[i] /\ w[i] < 2^k
    IN  (WideLimbs - i) * LimbBits + l

\* w * k + carry for a small k, from limb i up
RECURSIVE MulLimbs(_, _, _, _)
MulLimbs(w, k, i, carry) ==
    IF i = 0 THEN <<>>
    ELSE LET v == w[i] * k + carry
         IN  MulLimbs(w, k, i - 1, v \div Base) \o <<v % Base>>

\* a + b + carry, from limb i up
RECURSIVE AddLimbs(_, _, _, _)
AddLimbs(a, b, i, carry) ==
    IF i = 0 THEN <<>>
    ELSE LET v == a[i] + b[i] + carry
         IN  AddLimbs(a, b, i - 1, v \div Base) \o <<v % Base>>

\* the next n limbs of r / t by long division, then the remainder
RECURSIVE DivLimbs(_, _, _)
DivLimbs(r, t, n) ==
    IF n = 0 THEN <<r>>
    ELSE <<(r * Base) \div t>> \o DivLimbs((r * Base) % t, t, n - 1)

\* the last limbs of v, which hold Precision bits
Mantissa(v) == SubSeq(v, WideLimbs - 2, WideLimbs)

\* kept + 1, of leading exponent x unless the carry gives one more bit
RoundUp(kept, x) ==
    IF BitLen(kept) > Precision
    THEN [x |-> x + 1, m |-> Mantissa(Shr(kept, 1))]
    ELSE [x |-> x, m |-> Mantissa(kept)]

\* w cut to kept, its first Precision bits; above holds one bit more, the guard
RoundCut(w, x, sticky, d, kept, above) ==
    IF /\ above[WideLimbs] % 2 = 1
       /\ \/ sticky
          \/ Shl(above, d - 1) # w
          \/ kept[WideLimbs] % 2 = 1
    THEN RoundUp(AddLimbs(kept, WideZero, WideLimbs, 1), x)
    ELSE [x |-> x, m |-> Mantissa(kept)]

\* w of len bits
RoundBits(w, e, sticky, len) ==
    IF len <= Precision
    THEN [x |-> e + len - 1, m |-> Mantissa(Shl(w, Precision - len))]
    ELSE RoundCut(w, e + len - 1, sticky, len - Precision,
                  Shr(w, len - Precision), Shr(w, len - Precision - 1))

\* the binary64 value nearest to w * 2^e, to (w + something in (0,1)) * 2^e when sticky
Round(w, e, sticky) == RoundBits(w, e, sticky, BitLen(w))

\* an integer n >= 0 as a binary64 value
Num(n) ==
    IF n = 0 THEN NumZero ELSE Round(Wide(<<n>>), 0, FALSE)

\* scale c and t by powers of two until t <= c < 2t
RECURSIVE Normalise(_, _, _)
Normalise(c, t, x) ==
    IF c >= 2 * t THEN Normalise(c, 2 * t, x + 1)
    ELSE IF c < t THEN Normalise(2 * c, t, x - 1)
    ELSE <<c, t, x>>

\* n / t by long division for t <= n < 2t, times 2^x
Quotient(q, x) ==
    Round(Wide(SubSeq(q, 1, 4)), x - 3 * LimbBits, q[5] # 0)

Scaled(n) ==
    Quotient(<<n[1] \div n[2]>> \o DivLimbs(n[1] % n[2], n[2], 3), n[3])

\* c / t for integers c >= 0 and t > 0
NumDiv(c, t) ==
    IF c = 0 THEN NumZero ELSE Scaled(Normalise(c, t, 0))

\* d * k for an integer k > 0
NumTimes(d, k) ==
    IF IsZero(d) THEN NumZero
    ELSE Round(MulLimbs(Wide(d.m), k, WideLimbs, 0), d.x - (Precision - 1), FALSE)

\* a + b
NumPlus(a, b) ==
    IF IsZero(a) \/ (~IsZero(b) /\ b.x - a.x > Precision + 1) THEN b
    ELSE IF IsZero(b) \/ a.x - b.x > Precision + 1 THEN a
    ELSE LET lo == IF a.x < b.x THEN a.x ELSE b.x
             wa == Shl(Wide(a.m), a.x - lo)
             wb == Shl(Wide(b.m), b.x - lo)
         IN  Round(AddLimbs(wa, wb, WideLimbs, 0), lo - (Precision - 1), FALSE)

\* a <= b
NumLe(a, b) ==
    \/ IsZero(a)
    \/ /\ ~IsZero(b)
       /\ \/ a.x < b.x
          \/ /\ a.x = b.x
             /\ \/ a.m = b.m
                \/ \E i \in 1..Len(a.m) :
                     /\ a.m[i] < b.m[i]
                     /\ \A j \in 1..(i - 1) : a.m[j] = b.m[j]

\* the binary64 values next above and next below a positive one
NumUp(d) ==
    Round(AddLimbs(Wide(d.m), WideZero, WideLimbs, 1), d.x - (Precision - 1), FALSE)

NumDown(d) ==
    LET ones == [i \in 1..WideLimbs |-> Base - 1]
        twice == AddLimbs(Shl(Wide(d.m), 1), ones, WideLimbs, 0)
    IN  IF BitLen(twice) <= Precision
        THEN Round(twice, d.x - Precision, FALSE)
        ELSE Round(AddLimbs(Wide(d.m), ones, WideLimbs, 0),
                   d.x - (Precision - 1), FALSE)

\* A fraction n / d in lowest terms, d > 0: the value of an expression whose rounding
\* is not followed (words per minute, the variance of the delays).
Abs(n) == IF n < 0 THEN 0 - n ELSE n

RECURSIVE GCD(_, _)
GCD(a, b) == IF b = 0 THEN a ELSE GCD(b, a % b)

Rat(n, d) ==
    LET g == GCD(Abs(n), Abs(d))
        sign == IF d < 0 THEN 0 - 1 ELSE 1
    IN  [n |-> sign * (n \div g), d |-> sign * (d \div g)]

RatZero == Rat(0, 1)
RatPlus(a, b) == Rat(a.n * b.d + b.n * a.d, a.d * b.d)
RatMinus(a, b) == Rat(a.n * b.d - b.n * a.d, a.d * b.d)
RatTimes(a, b) == Rat(a.n * b.n, a.d * b.d)
RatOver(a, b) == Rat(a.n * b.d, a.d * b.n)
RatPositive(a) == a.n > 0

\* Math.sqrt(v), kept as the number it is the square root of
Sqrt(v) == [squared |-> v]

\* ---------------------------------------------------------------- dataCapture.ts
captureEnvironmentInfo ==
    [ deviceType |-> "desktop", keyboardLayout |-> "QWERTY",
      inputMethod |-> "physical keyboard" ]

\* initializeSession that stamps endTime at creation
initializeSession_ended(prompt, id, t) ==
    [ sessionId |-> id,
      startTime |-> t,
      endTime |-> Some(t),
      textPrompt |-> prompt,
      userTranscript |-> "",
      completionStatus |-> "in-progress",
      duration |-> None,
      deviceInfo |-> captureEnvironmentInfo ]

initializeSession(prompt, id, t) ==
    [ sessionId |-> id,
      startTime |-> t,
      endTime |-> None,
      textPrompt |-> prompt,
      userTranscript |-> "",
      completionStatus |-> "in-progress",
      duration |-> None,
      deviceInfo |-> captureEnvironmentInfo ]

\* recordKeystroke that counts a key as correct where no key is expected
recordKeystroke_nullMatches(key, expectedKey, position, actionType, lastKeystrokeTime, id, t) ==
    [ id |-> id,
      timestamp |-> t,
      key |-> key,
      expectedKey |-> expectedKey,
      isCorrect |-> (expectedKey = None \/ expectedKey = Some(key)),
      position |-> position,
      actionType |-> actionType,
      interKeyDelay |-> IF TruthyNum(lastKeystrokeTime)
                        THEN Some(t - Val(lastKeystrokeTime))
                        ELSE None ]

recordKeystroke(key, expectedKey, position, actionType, lastKeystrokeTime, id, t) ==
    [ id |-> id,
      timestamp |-> t,
      key |-> key,
      expectedKey |-> expectedKey,
      isCorrect |-> (expectedKey = Some(key)),
      position |-> position,
      actionType |-> actionType,
      interKeyDelay |-> IF TruthyNum(lastKeystrokeTime)
                        THEN Some(t - Val(lastKeystrokeTime))
                        ELSE None ]

\* finalizeSession that restarts the session clock at the end time
finalizeSession_restart(sessionMetadata, userTranscript, completionStatus, t) ==
    [ sessionMetadata EXCEPT
        !.startTime = t,
        !.endTime = Some(t),
        !.userTranscript = userTranscript,
        !.completionStatus = completionStatus,
        !.duration = Some(t - sessionMetadata.startTime) ]

\* finalizeSession with the operands of the duration swapped
finalizeSession_swapped(sessionMetadata, userTranscript, completionStatus, t) ==
    [ sessionMetadata EXCEPT
        !.endTime = Some(t),
        !.userTranscript = userTranscript,
        !.completionStatus = completionStatus,
        !.duration = Some(sessionMetadata.startTime - t) ]

finalizeSession(sessionMetadata, userTranscript, completionStatus, t) ==
    [ sessionMetadata EXCEPT
        !.endTime = Some(t),
        !.userTranscript = userTranscript,
        !.completionStatus = completionStatus,
        !.duration = Some(t - sessionMetadata.startTime) ]

\* key.length === 1
SingleChar(key) == key \in {"a", "b", " "}

\* a filter that looks at the key only
typingKeystrokes_anyAction(keystrokes) ==
    SelectSeq(keystrokes, LAMBDA k : SingleChar(k.key))

\* a filter that looks at the action type only
typingKeystrokes_anyKey(keystrokes) ==
    SelectSeq(keystrokes, LAMBDA k : k.actionType = "keypress")

\* the filter of calculateMetrics
typingKeystrokes(keystrokes) ==
    SelectSeq(keystrokes, LAMBDA k : k.actionType = "keypress" /\ SingleChar(k.key))

MsPerSecond == 1000
SecondsPerMinute == 60
CharsPerWord == 5
Percent == 100

\* accuracy that is 100 where nothing was typed
accuracy_vacuous(correctKeystrokes, totalKeystrokes) ==
    IF totalKeystrokes > 0
    THEN NumTimes(NumDiv(correctKeystrokes, totalKeystrokes), Percent)
    ELSE Num(Percent)

\* accuracy left as a fraction of one
accuracy_fraction(correctKeystrokes, totalKeystrokes) ==
    IF totalKeystrokes > 0
    THEN NumDiv(correctKeystrokes, totalKeystrokes)
    ELSE NumZero

\* (part / whole) * Percent and part / whole, for every pair of counts a log of the
\* model can give
Counts == 0..(MaxIds + MaxLog)

PercentOf ==
    [whole \in Counts \ {0} |->
        [part \in 0..whole |-> NumTimes(NumDiv(part, whole), Percent)]]

ShareOf ==
    [whole \in Counts \ {0} |-> [part \in 0..whole |-> NumDiv(part, whole)]]

accuracy(correctKeystrokes, totalKeystrokes) ==
    IF totalKeystrokes > 0
    THEN PercentOf[totalKeystrokes][correctKeystrokes]
    ELSE NumZero

\* sessionMetadata.duration is falsy when null or 0
durationMinutes(sessionMetadata) ==
    IF TruthyNum(sessionMetadata.duration)
    THEN Rat(Val(sessionMetadata.duration), MsPerSecond * SecondsPerMinute)
    ELSE RatZero

\* words per minute over the absolute value of the duration
wpm_absolute(charCount, minutes) ==
    IF minutes.n # 0
    THEN RatOver(Rat(charCount, CharsPerWord), Rat(Abs(minutes.n), minutes.d))
    ELSE RatZero

wpm(charCount, minutes) ==
    IF RatPositive(minutes)
    THEN RatOver(Rat(charCount, CharsPerWord), minutes)
    ELSE RatZero

\* error rate as the share of the correct keystrokes
errorRate_complement(errorKeystrokes, totalKeystrokes) ==
    IF totalKeystrokes > 0
    THEN NumDiv(totalKeystrokes - errorKeystrokes, totalKeystrokes)
    ELSE NumZero

errorRate(errorKeystrokes, totalKeystrokes) ==
    IF totalKeystrokes > 0
    THEN ShareOf[totalKeystrokes][errorKeystrokes]
    ELSE NumZero

\* the delays of the counted keystrokes that have one
interKeyDelays(typing) ==
    LET withDelay == SelectSeq(typing, LAMBDA k : k.interKeyDelay # None)
    IN  [i \in 1..Len(withDelay) |-> Val(withDelay[i].interKeyDelay)]

\* reduce((sum, x) => sum + x, 0) over a sequence of fractions
RECURSIVE sum(_)
sum(xs) == IF xs = <<>> THEN RatZero ELSE RatPlus(xs[1], sum(Tail(xs)))

\* the sample deviation: the squared differences divided by one less than their number
consistency_sample(delays) ==
    IF Len(delays) > 1
    THEN LET n == Rat(Len(delays), 1)
             mean == RatOver(sum([i \in 1..Len(delays) |-> Rat(delays[i], 1)]), n)
             squaredDiffs ==
                 [i \in 1..Len(delays) |->
                     RatTimes(RatMinus(Rat(delays[i], 1), mean),
                              RatMinus(Rat(delays[i], 1), mean))]
         IN  Sqrt(RatOver(sum(squaredDiffs), Rat(Len(delays) - 1, 1)))
    ELSE Sqrt(RatZero)

consistency(delays) ==
    IF Len(delays) > 1
    THEN LET n == Rat(Len(delays), 1)
             mean == RatOver(sum([i \in 1..Len(delays) |-> Rat(delays[i], 1)]), n)
             squaredDiffs ==
                 [i \in 1..Len(delays) |->
                     RatTimes(RatMinus(Rat(delays[i], 1), mean),
                              RatMinus(Rat(delays[i], 1), mean))]
             variance == RatOver(sum(squaredDiffs), n)
         IN  Sqrt(variance)
    ELSE Sqrt(RatZero)

\* problem keys counted under the key that was expected
RECURSIVE problemKeys_expected(_)
problemKeys_expected(typing) ==
    IF typing = <<>> THEN <<>>
    ELSE LET keystroke == typing[Len(typing)]
             before == problemKeys_expected(SubSeq(typing, 1, Len(typing) - 1))
             key == IF Has(keystroke.expectedKey) THEN Val(keystroke.expectedKey) ELSE ""
         IN  IF ~keystroke.isCorrect /\ key # ""
             THEN IF key \in DOMAIN before
                  THEN [before EXCEPT ![key] = @ + 1]
                  ELSE before @@ (key :> 1)
             ELSE before

\* problem keys that are marked, not counted
RECURSIVE problemKeys_marked(_)
problemKeys_marked(typing) ==
    IF typing = <<>> THEN <<>>
    ELSE LET keystroke == typing[Len(typing)]
             before == problemKeys_marked(SubSeq(typing, 1, Len(typing) - 1))
         IN  IF ~keystroke.isCorrect /\ keystroke.key # ""
             THEN IF keystroke.key \in DOMAIN before
                  THEN before
                  ELSE before @@ (keystroke.key :> 1)
             ELSE before

\* the forEach over the counted keystrokes, in log order
RECURSIVE problemKeys(_)
problemKeys(typing) ==
    IF typing = <<>> THEN <<>>
    ELSE LET keystroke == typing[Len(typing)]
             before == problemKeys(SubSeq(typing, 1, Len(typing) - 1))
         IN  IF ~keystroke.isCorrect /\ keystroke.key # ""
             THEN IF keystroke.key \in DOMAIN before
                  THEN [before EXCEPT ![keystroke.key] = @ + 1]
                  ELSE before @@ (keystroke.key :> 1)
             ELSE before

calculateMetrics(keystrokes, sessionMetadata) ==
    LET typing == typingKeystrokes(keystrokes)
        total == Len(typing)
        correct == Len(SelectSeq(typing, LAMBDA k : k.isCorrect))
        errors == total - correct
    IN  [ wpm |-> wpm(total, durationMinutes(sessionMetadata)),
          accuracy |-> accuracy(correct, total),
          errorRate |-> errorRate(errors, total),
          totalKeystrokes |-> total,
          correctKeystrokes |-> correct,
          errorKeystrokes |-> errors,
          consistency |-> consistency(interKeyDelays(typing)),
          problemKeys |-> problemKeys(typing) ]

\* generateSessionData that returns the log latest first
generateSessionData_latestFirst(sessionMetadata, keystrokes) ==
    [ metadata |-> sessionMetadata,
      keystrokes |-> [i \in 1..Len(keystrokes) |-> keystrokes[Len(keystrokes) + 1 - i]],
      metrics |-> calculateMetrics(keystrokes, sessionMetadata) ]

generateSessionData(sessionMetadata, keystrokes) ==
    [ metadata |-> sessionMetadata,
      keystrokes |-> keystrokes,
      metrics |-> calculateMetrics(keystrokes, sessionMetadata) ]

\* localStorage.setItem under the key of the session; the stored text is not read back
\* by the hook, so only the keys are kept
saveSessionToLocalStorage(store, sessionData) ==
    store \cup {sessionData.metadata.sessionId}

\* ---------------------------------------------------------------- useTypingData.ts
\* a component that is not on the page
PageUnmounted == [ st |-> None, nx |-> None, todo |-> <<>> ]
StatsUnmounted == None

HookState0 ==
    [ sessionMetadata |-> None,
      keystrokes |-> <<>>,
      lastKeystrokeTime |-> None,
      sessionId |-> None,
      sessionData |-> None ]

DriverState0 ==
    [ sessionMetadata |-> None,
      keystrokes |-> <<>>,
      lastKeystrokeTime |-> None ]

\* an updater that puts the new record first
appendKeystroke_front(prevKeystrokes, keystroke) == <<keystroke>> \o prevKeystrokes

\* the updater passed to setKeystrokes by captureKeystroke
appendKeystroke(prevKeystrokes, keystroke) == Append(prevKeystrokes, keystroke)

\* the effect without its setKeystrokes([]) and setLastKeystrokeTime(null)
initEffect_keepLog(s, prompt, id, t) ==
    IF prompt # ""
    THEN [ s EXCEPT
             !.sessionMetadata = Some(initializeSession(prompt, id, t)),
             !.sessionData = None ]
    ELSE s

\* the body of the effect with dependency [textPrompt], applied to the pending state
initEffect(s, prompt, id, t) ==
    IF prompt # ""
    THEN [ s EXCEPT
             !.sessionMetadata = Some(initializeSession(prompt, id, t)),
             !.keystrokes = <<>>,
             !.lastKeystrokeTime = None,
             !.sessionData = None ]
    ELSE s

\* the effect with dependency [sessionData]
saveEffect(store, old, new) ==
    IF new.sessionData # old.sessionData /\ Has(new.sessionData)
    THEN saveSessionToLocalStorage(store, Val(new.sessionData))
    ELSE store

Init ==
    /\ page = PageUnmounted
    /\ stats = StatsUnmounted
    /\ textPrompt \in Prompts \cup {""}
    /\ now \in Clock
    /\ st = HookState0
    /\ nx = initEffect(HookState0, textPrompt, 1, now)
    /\ nextId = IF textPrompt # "" THEN 2 ELSE 1
    /\ storage = {}
    /\ result = None
    /\ captured = <<>>
    /\ lastOp = [op |-> "mount", args |-> <<>>]
    /\ drv = DriverState0

\* React commits the queued updates; the callbacks are created anew
Render ==
    /\ UNCHANGED componentVars
    /\ nx # st
    /\ st' = nx
    /\ storage' = saveEffect(storage, st, nx)
    /\ result' = None
    /\ lastOp' = [op |-> "render", args |-> <<>>]
    /\ UNCHANGED <<textPrompt, nx, now, nextId, captured, drv>>

\* the parent renders the hook with another prompt; the [textPrompt] effect runs
ChangePrompt(p) ==
    /\ UNCHANGED componentVars
    /\ p # textPrompt
    /\ textPrompt' = p
    /\ st' = nx
    /\ storage' = saveEffect(storage, st, nx)
    /\ IF p # ""
       THEN /\ nextId <= MaxIds
            /\ \E t \in now..MaxTime :
                 /\ now' = t
                 /\ nx' = initEffect(nx, p, nextId, t)
            /\ nextId' = nextId + 1
            /\ captured' = <<>>
       ELSE /\ nx' = initEffect(nx, p, nextId, now)
            /\ UNCHANGED <<now, nextId, captured>>
    /\ result' = None
    /\ lastOp' = [op |-> "changePrompt", args |-> <<>>]
    /\ UNCHANGED drv

captureKeystroke(key, expectedKey, position, actionType) ==
    /\ UNCHANGED componentVars
    /\ lastOp' = [op |-> "captureKeystroke", args |-> <<>>]
    /\ result' = None
    /\ IF ~Has(st.sessionMetadata)
       THEN UNCHANGED <<textPrompt, st, nx, now, nextId, storage, captured, drv>>
       ELSE /\ nextId <= MaxKeystrokeId
            /\ \E t \in now..MaxTime :
                 LET keystroke == recordKeystroke(key, expectedKey, position, actionType,
                                                  st.lastKeystrokeTime, nextId, t)
                 IN  /\ now' = t
                     /\ nx' = [ nx EXCEPT
                                  !.keystrokes = appendKeystroke(@, keystroke),
                                  !.lastKeystrokeTime = Some(keystroke.timestamp) ]
            /\ nextId' = nextId + 1
            /\ captured' = Append(captured, nextId)
            /\ UNCHANGED <<textPrompt, st, storage, drv>>

completeSession(userTranscript, completionStatus) ==
    /\ UNCHANGED componentVars
    /\ lastOp' = [op |-> "completeSession", args |-> <<userTranscript, completionStatus>>]
    /\ IF ~Has(st.sessionMetadata)
       THEN /\ result' = None
            /\ UNCHANGED <<textPrompt, st, nx, now, nextId, storage, captured, drv>>
       ELSE \E t \in now..MaxTime :
              \E finalizedMetadata \in
                    {finalizeSession(Val(st.sessionMetadata),
                                     userTranscript, completionStatus, t)} :
                \E fullSessionData \in
                      {generateSessionData(finalizedMetadata, st.keystrokes)} :
                  /\ now' = t
                  /\ nx' = [ nx EXCEPT
                               !.sessionMetadata = Some(finalizedMetadata),
                               !.sessionData = Some(fullSessionData),
                               !.sessionId = Some(fullSessionData.metadata.sessionId) ]
                  /\ storage' = saveSessionToLocalStorage(storage, fullSessionData)
                  /\ result' = Some(fullSessionData)
                  /\ UNCHANGED <<textPrompt, st, nextId, captured, drv>>

Next ==
    \/ Render
    \/ \E p \in Prompts \cup {""} : ChangePrompt(p)
    \/ \E e \in HookKeyEvents : captureKeystroke(e[1], e[2], e[3], e[4])
    \/ \E tr \in Transcripts, o \in Outcomes : completeSession(tr, o)

Spec == Init /\ [][Next]_vars

\* ---------------------------------------------------------------- direct calls
\* A driver holds one session (metadata, log, time of the last keystroke) and calls
\* the four functions of dataCapture.ts on it, in any order.
LibInit ==
    /\ page = PageUnmounted
    /\ stats = StatsUnmounted
    /\ textPrompt = ""
    /\ now \in Clock
    /\ st = HookState0
    /\ nx = HookState0
    /\ nextId = 1
    /\ storage = {}
    /\ result = None
    /\ captured = <<>>
    /\ lastOp = [op |-> "mount", args |-> <<>>]
    /\ drv = DriverState0

LibInitialize(p) ==
    /\ UNCHANGED componentVars
    /\ nextId <= MaxIds
    /\ \E t \in Clock :
         /\ now' = t
         /\ drv' = [ sessionMetadata |-> Some(initializeSession(p, nextId, t)),
                     keystrokes |-> <<>>,
                     lastKeystrokeTime |-> None ]
         /\ result' = Some(initializeSession(p, nextId, t))
    /\ nextId' = nextId + 1
    /\ lastOp' = [op |-> "initializeSession", args |-> <<p>>]
    /\ UNCHANGED hookVars

LibRecord(key, expectedKey, position, actionType) ==
    /\ UNCHANGED componentVars
    /\ Has(drv.sessionMetadata)
    /\ nextId <= MaxIds
    /\ \E t \in Clock :
         LET keystroke == recordKeystroke(key, expectedKey, position, actionType,
                                          drv.lastKeystrokeTime, nextId, t)
         IN  /\ now' = t
             /\ drv' = [ drv EXCEPT
                           !.keystrokes = Append(@, keystroke),
                           !.lastKeystrokeTime = Some(keystroke.timestamp) ]
             /\ result' = Some(keystroke)
    /\ nextId' = nextId + 1
    /\ lastOp' = [op |-> "recordKeystroke", args |-> <<drv.lastKeystrokeTime>>]
    /\ UNCHANGED hookVars

LibFinalize(userTranscript, completionStatus) ==
    /\ UNCHANGED componentVars
    /\ Has(drv.sessionMetadata)
    /\ \E t \in Clock :
         LET finalizedMetadata == finalizeSession(Val(drv.sessionMetadata),
                                                  userTranscript, completionStatus, t)
         IN  /\ now' = t
             /\ drv' = [ drv EXCEPT !.sessionMetadata = Some(finalizedMetadata) ]
             /\ result' = Some(finalizedMetadata)
    /\ lastOp' = [op |-> "finalizeSession",
                  args |-> <<userTranscript, completionStatus,
                             Val(drv.sessionMetadata).completionStatus>>]
    /\ UNCHANGED <<nextId, hookVars>>

LibAssemble ==
    /\ UNCHANGED componentVars
    /\ Has(drv.sessionMetadata)
    /\ result' = Some(generateSessionData(Val(drv.sessionMetadata), drv.keystrokes))
    /\ lastOp' = [op |-> "generateSessionData", args |-> <<>>]
    /\ UNCHANGED <<now, nextId, drv, hookVars>>

LibNext ==
    \/ \E p \in Prompts : LibInitialize(p)
    \/ \E e \in KeyEvents : LibRecord(e[1], e[2], e[3], e[4])
    \/ \E tr \in Transcripts \cup {""}, o \in Outcomes : LibFinalize(tr, o)
    \/ LibAssemble

LibSpec == LibInit /\ [][LibNext]_vars

\* ---------------------------------------------------------------- metrics
\* A session, in progress or finalized, gets a log of at most MaxLog keystrokes
\* through recordKeystroke, and calculateMetrics is called on the log at any point.
\* The finalized sessions start or end at the first clock value, which gives every
\* duration the clock allows: positive, zero and negative.
MetricSessions ==
    {initializeSession("ab", 1, 1)}
    \cup { finalizeSession(initializeSession("ab", 1, p[1]), "ab", "completed", p[2]) :
             p \in { q \in Clock \X Clock : q[1] = 1 \/ q[2] = 1 } }

MInit ==
    /\ page = PageUnmounted
    /\ stats = StatsUnmounted
    /\ textPrompt = ""
    /\ st = HookState0
    /\ nx = HookState0
    /\ nextId = 2
    /\ storage = {}
    /\ result = None
    /\ captured = <<>>
    /\ lastOp = [op |-> "mount", args |-> <<>>]
    /\ \E m \in MetricSessions :
         /\ now = IF Has(m.endTime) THEN Val(m.endTime) ELSE m.startTime
         /\ drv = [ DriverState0 EXCEPT !.sessionMetadata = Some(m) ]

\* the clock reads of recordKeystroke: any order of two values, so that a delay is
\* positive, zero or negative
KeyTimes == {1, 2}

MRecord(key, expectedKey, position, actionType) ==
    /\ UNCHANGED componentVars
    /\ Len(drv.keystrokes) < MaxLog
    /\ \E t \in KeyTimes :
         LET keystroke == recordKeystroke(key, expectedKey, position, actionType,
                                          drv.lastKeystrokeTime, nextId, t)
         IN  /\ now' = t
             /\ drv' = [ drv EXCEPT
                           !.keystrokes = Append(@, keystroke),
                           !.lastKeystrokeTime = Some(keystroke.timestamp) ]
    /\ nextId' = nextId + 1
    /\ result' = None
    /\ lastOp' = [op |-> "recordKeystroke", args |-> <<>>]
    /\ UNCHANGED hookVars

\* the driver ends the session in progress
MFinalize(userTranscript, completionStatus) ==
    /\ UNCHANGED componentVars
    /\ Val(drv.sessionMetadata).completionStatus = "in-progress"
    /\ \E t \in KeyTimes :
         /\ now' = t
         /\ drv' = [ drv EXCEPT
                       !.sessionMetadata =
                           Some(finalizeSession(Val(drv.sessionMetadata),
                                                userTranscript, completionStatus, t)) ]
    /\ result' = None
    /\ lastOp' = [op |-> "finalizeSession", args |-> <<>>]
    /\ UNCHANGED <<nextId, hookVars>>

MCompute ==
    /\ UNCHANGED componentVars
    /\ result' = Some(calculateMetrics(drv.keystrokes, Val(drv.sessionMetadata)))
    /\ lastOp' = [op |-> "calculateMetrics", args |-> <<>>]
    /\ UNCHANGED <<now, nextId, drv>>
    /\ UNCHANGED hookVars

MNext ==
    \/ \E e \in MetricEvents : MRecord(e[1], e[2], e[3], e[4])
    \/ \E o \in Outcomes : MFinalize("ab", o)
    \/ MCompute
    \/ LibAssemble

MetricsSpec == MInit /\ [][MNext]_vars

\* ---------------------------------------------------------------- TypingTest.tsx
\* The component keeps nine state cells.  page.st holds the values of the committed
\* render, page.nx the values with the queued setState calls applied, page.todo the
\* effects of the committed render that have not run yet, in declaration order.  A key
\* or click is handled when the page has settled: React runs the effects of a render
\* and commits what they queue before it dispatches the next event.

\* sampleTexts, cut to a few characters (a string is the sequence of its characters)
sampleTexts == { <<"a", "b">>, <<"b", " ", "a">> }

\* e.key of the keydown events
Keys == {"a", "b", " ", "Backspace", "Escape", "Tab"}

\* the useState initial values
PageState0 ==
    [ text |-> <<>>,
      userInput |-> <<>>,
      startTime |-> None,
      wordCount |-> 0,
      accuracy |-> 100,
      isActive |-> FALSE,
      currentPosition |-> 0,
      errors |-> 0,
      testComplete |-> FALSE ]

\* String.prototype.trim
RECURSIVE trim(_)
trim(str) ==
    IF str = <<>> THEN str
    ELSE IF Head(str) = " " THEN trim(Tail(str))
    ELSE IF str[Len(str)] = " " THEN trim(SubSeq(str, 1, Len(str) - 1))
    ELSE str

\* userInput.trim().split(/\s+/).length
words(userInput) ==
    LET trimmed == trim(userInput)
    IN  1 + Cardinality({ i \in 2..Len(trimmed) : trimmed[i] = " " /\ trimmed[i-1] # " " })

calculateErrors(state) ==
    Cardinality({ i \in 1..state.currentPosition :
                    \/ i > Len(state.userInput)
                    \/ i > Len(state.text)
                    \/ state.text[i] # state.userInput[i] })

\* Math.round(Math.max(0, 100 - (errorCount / text.length * 100))); for the text lengths
\* of sampleTexts the quotient is never within rounding distance of a half
accuracyPercentage(errorCount, length) ==
    IF length = 0
    THEN IF errorCount = 0 THEN "NaN" ELSE 0
    ELSE IF errorCount >= length THEN 0
    ELSE (2 * Percent * (length - errorCount) + length) \div (2 * length)

\* the effects whose dependency arrays differ between two renders
effectsDue(before, after) ==
    (IF before.userInput # after.userInput \/ before.startTime # after.startTime
     THEN <<"startTimer">> ELSE <<>>)
    \o
    (IF \/ before.userInput # after.userInput
        \/ before.startTime # after.startTime
        \/ before.isActive # after.isActive
        \/ before.currentPosition # after.currentPosition
        \/ before.text # after.text
     THEN <<"metrics">> ELSE <<>>)

\* no effect is waiting and nothing is queued
Settled == page.todo = <<>> /\ page.nx = page.st

\* a reset that leaves the timer as it is
resetTest_keepsTimer(state, text) ==
    [ state EXCEPT
        !.text = text,
        !.userInput = <<>>,
        !.wordCount = 0,
        !.accuracy = 100,
        !.currentPosition = 0,
        !.errors = 0,
        !.testComplete = FALSE ]

\* the setState calls of resetTest, applied to the queued state
resetTest_state(state, text) ==
    [ state EXCEPT
        !.text = text,
        !.userInput = <<>>,
        !.startTime = None,
        !.wordCount = 0,
        !.accuracy = 100,
        !.isActive = FALSE,
        !.currentPosition = 0,
        !.errors = 0,
        !.testComplete = FALSE ]

\* Backspace that steps back whatever the input holds
handleInput_unguarded(closure, state, key) ==
    IF key = "Backspace"
    THEN [ state EXCEPT
             !.userInput = SubSeq(closure.userInput, 1, Len(closure.userInput) - 1),
             !.currentPosition = closure.currentPosition - 1 ]
    ELSE IF SingleChar(key)
    THEN [ state EXCEPT
             !.userInput = Append(closure.userInput, key),
             !.currentPosition = closure.currentPosition + 1 ]
    ELSE state

\* handleInput: closure holds the values of the render, state the queued values
handleInput(closure, state, key) ==
    IF key = "Backspace"
    THEN IF Len(closure.userInput) > 0
         THEN [ state EXCEPT
                  !.userInput = SubSeq(closure.userInput, 1, Len(closure.userInput) - 1),
                  !.currentPosition =
                      IF closure.currentPosition - 1 > 0
                      THEN closure.currentPosition - 1 ELSE 0 ]
         ELSE state
    ELSE IF SingleChar(key)
    THEN [ state EXCEPT
             !.userInput = Append(closure.userInput, key),
             !.currentPosition = closure.currentPosition + 1 ]
    ELSE state

PageInit ==
    /\ page = [ st |-> PageState0, nx |-> PageState0,
                todo |-> <<"selectText", "startTimer", "metrics">> ]
    /\ stats = StatsUnmounted
    /\ now \in Clock
    /\ lastOp = [op |-> "mount", args |-> <<>>]
    /\ textPrompt = ""
    /\ st = HookState0
    /\ nx = HookState0
    /\ nextId = 1
    /\ storage = {}
    /\ result = None
    /\ captured = <<>>
    /\ drv = DriverState0

\* the mount effect: a random sample text
selectText ==
    /\ page.todo # <<>> /\ Head(page.todo) = "selectText"
    /\ \E text \in sampleTexts :
         page' = [ page EXCEPT !.nx.text = text, !.todo = Tail(@) ]
    /\ UNCHANGED <<now, lastOp, nextId, result, drv, stats, hookVars>>

\* the [userInput, startTime] effect
startTimer ==
    /\ page.todo # <<>> /\ Head(page.todo) = "startTimer"
    /\ IF Len(page.st.userInput) = 1 /\ ~TruthyNum(page.st.startTime)
       THEN \E t \in now..MaxTime :
              /\ now' = t
              /\ page' = [ page EXCEPT !.nx.startTime = Some(t),
                                       !.nx.isActive = TRUE,
                                       !.todo = Tail(@) ]
       ELSE /\ page' = [ page EXCEPT !.todo = Tail(@) ]
            /\ UNCHANGED now
    /\ UNCHANGED <<lastOp, nextId, result, drv, stats, hookVars>>

\* the [userInput, startTime, isActive, currentPosition, text] effect
metricsEffect ==
    /\ page.todo # <<>> /\ Head(page.todo) = "metrics"
    /\ IF TruthyNum(page.st.startTime) /\ page.st.isActive
       THEN \E errorCount \in {calculateErrors(page.st)} :
              page' = [ page EXCEPT
                  !.nx.wordCount = words(page.st.userInput),
                  !.nx.accuracy = accuracyPercentage(errorCount, Len(page.st.text)),
                  !.nx.errors = errorCount,
                  !.nx.isActive =
                      IF page.st.currentPosition >= Len(page.st.text) THEN FALSE ELSE @,
                  !.nx.testComplete =
                      IF page.st.currentPosition >= Len(page.st.text) THEN TRUE ELSE @,
                  !.todo = Tail(@) ]
       ELSE page' = [ page EXCEPT !.todo = Tail(@) ]
    /\ UNCHANGED <<now, lastOp, nextId, result, drv, stats, hookVars>>

\* React commits what the handler or the effects queued
pageRender ==
    /\ page.todo = <<>>
    /\ page.nx # page.st
    /\ page' = [ st |-> page.nx, nx |-> page.nx, todo |-> effectsDue(page.st, page.nx) ]
    /\ UNCHANGED <<now, lastOp, nextId, result, drv, stats, hookVars>>

\* the Reset Test button
resetTest ==
    /\ Settled
    /\ \E text \in sampleTexts :
         page' = [ page EXCEPT !.nx = resetTest_state(page.nx, text) ]
    /\ lastOp' = [op |-> "resetTest", args |-> <<>>]
    /\ UNCHANGED <<now, nextId, result, drv, stats, hookVars>>

handleKeyDown(key) ==
    /\ Settled
    /\ SingleChar(key) => Len(page.st.userInput) < MaxInput
    /\ lastOp' = [op |-> "handleKeyDown", args |-> <<key>>]
    /\ IF key = "Escape"
       THEN /\ \E text \in sampleTexts :
                 page' = [ page EXCEPT !.nx = resetTest_state(page.nx, text) ]
            /\ UNCHANGED now
       ELSE IF ~page.st.isActive /\ SingleChar(key)
       THEN \E t \in now..MaxTime :
              /\ now' = t
              /\ page' = [ page EXCEPT
                             !.nx = handleInput(page.st,
                                                [ page.nx EXCEPT !.startTime = Some(t),
                                                                 !.isActive = TRUE ],
                                                key) ]
       ELSE /\ page' = [ page EXCEPT !.nx = handleInput(page.st, page.nx, key) ]
            /\ UNCHANGED now
    /\ UNCHANGED <<nextId, result, drv, stats, hookVars>>

PageNext ==
    \/ selectText
    \/ startTimer
    \/ metricsEffect
    \/ pageRender
    \/ resetTest
    \/ \E key \in Keys : handleKeyDown(key)

PageSpec == PageInit /\ [][PageNext]_vars

\* ---------------------------------------------------------------- TypingStats
\* The retry flow of TypingStats for a session that was handed to the component.
\* stats.st and stats.nx are the rendered and the queued state cells, stats.todo the
\* effects of the committed render still to run.  stats.fetch is the fetchFoundryData
\* call that is still mounted: the request it waits for, and the retryCount its
\* closure holds.  React runs the effects of a render together; a timer callback or
\* a response runs once they are through, before or after the next render.
\* Cells that are only displayed (loadingError, activeTab, validationStatus) are left
\* out, and so are the buttons: no user takes part in the automatic retries.

maxRetries == 7

\* retryCount is followed this far
MaxRetryCount == maxRetries

\* what /api/foundry/stats answers: a list with the session, a list without it, a body
\* that is no list, or an error status
Responses == {"match", "noMatch", "invalid", "error"}

StatsState0 ==
    [ retryCount |-> 0,
      isLoading |-> FALSE,
      foundryKeystrokeData |-> None,
      metricsData |-> 0,
      matchFound |-> FALSE,
      noMatchFound |-> FALSE,
      foundryDataFetchComplete |-> FALSE ]

NoFetch == [ waitsFor |-> "nothing", retryCount |-> 0 ]

\* a value parsed from a response is a new object: its identity differs from the one
\* the cell held
fresh(identity) == IF identity = 1 THEN 2 ELSE 1

identityOf(cell) == IF Has(cell) THEN Val(cell).identity ELSE 0

\* the effects whose dependency arrays differ between two renders
statsEffectsDue(before, after) ==
    (IF \/ before.retryCount # after.retryCount
        \/ before.foundryDataFetchComplete # after.foundryDataFetchComplete
     THEN <<"fetch">> ELSE <<>>)
    \o
    (IF \/ before.foundryKeystrokeData # after.foundryKeystrokeData
        \/ before.retryCount # after.retryCount
        \/ before.isLoading # after.isLoading
        \/ before.metricsData # after.metricsData
     THEN <<"match">> ELSE <<>>)

\* the catch block of fetchFoundryData, for the retryCount of its closure
fetchFailed(retryCount) ==
    IF retryCount < maxRetries - 1
    THEN stats' = [ stats EXCEPT !.fetch = NoFetch, !.fetchTimer = TRUE ]
    ELSE stats' = [ stats EXCEPT !.fetch = NoFetch,
                                 !.nx.isLoading = FALSE,
                                 !.nx.foundryDataFetchComplete = TRUE ]

\* the branches of the match effect that find nothing: what they queue when the
\* retries are used up
matchRetry(state, retryCount, found) ==
    IF retryCount >= maxRetries - 1
    THEN [ state EXCEPT !.noMatchFound = (found = "noMatch") \/ @,
                        !.isLoading = FALSE,
                        !.foundryDataFetchComplete = TRUE ]
    ELSE state

StatsInit ==
    /\ stats = [ st |-> StatsState0, nx |-> StatsState0,
                 todo |-> <<"fetch", "match">>,
                 fetch |-> NoFetch,
                 fetchTimer |-> FALSE,
                 matchTimers |-> 0 ]
    /\ page = PageUnmounted
    /\ now = 1
    /\ lastOp = [op |-> "mount", args |-> <<>>]
    /\ textPrompt = ""
    /\ st = HookState0
    /\ nx = HookState0
    /\ nextId = 1
    /\ storage = {}
    /\ result = None
    /\ captured = <<>>
    /\ drv = DriverState0

\* the [retryCount, sessionData, foundryDataFetchComplete] effect: the cleanup of its
\* last run, then its body up to the first await of fetchFoundryData
fetchEffect ==
    /\ stats.todo # <<>> /\ Head(stats.todo) = "fetch"
    /\ LET closure == stats.st
           cleaned == [ stats EXCEPT !.todo = Tail(@), !.fetch = NoFetch,
                                     !.fetchTimer = FALSE ]
       IN  IF closure.matchFound
           THEN stats' = cleaned
           ELSE IF closure.foundryDataFetchComplete /\ closure.retryCount = 0
           THEN stats' = cleaned
           ELSE stats' =
                  [ cleaned EXCEPT
                      !.nx.foundryDataFetchComplete =
                          IF closure.retryCount > 0 /\ closure.foundryDataFetchComplete
                          THEN FALSE ELSE @,
                      !.nx.isLoading =
                          IF ~closure.foundryDataFetchComplete \/ closure.retryCount > 0
                          THEN TRUE ELSE @,
                      !.nx.noMatchFound =
                          IF ~closure.foundryDataFetchComplete \/ closure.retryCount > 0
                          THEN FALSE ELSE @,
                      !.fetch = [ waitsFor |-> "stats", retryCount |-> closure.retryCount ] ]
    /\ lastOp' = [op |-> "fetchEffect", args |-> <<>>]
    /\ UNCHANGED <<now, nextId, result, drv, page, hookVars>>

\* the response of /api/foundry/stats arrives
statsResponse(response) ==
    /\ stats.todo = <<>>
    /\ stats.fetch.waitsFor = "stats"
    /\ IF response = "error"
       THEN fetchFailed(stats.fetch.retryCount)
       ELSE stats' = [ stats EXCEPT
                         !.nx.foundryKeystrokeData =
                             Some([ identity |-> fresh(identityOf(@)), holds |-> response ]),
                         !.fetch.waitsFor = "metrics" ]
    /\ lastOp' = [op |-> "statsResponse", args |-> <<response>>]
    /\ UNCHANGED <<now, nextId, result, drv, page, hookVars>>

\* the response of /api/foundry/metrics arrives
metricsResponse(ok) ==
    /\ stats.todo = <<>>
    /\ stats.fetch.waitsFor = "metrics"
    /\ IF ~ok
       THEN fetchFailed(stats.fetch.retryCount)
       ELSE stats' = [ stats EXCEPT
                         !.nx.metricsData = fresh(@),
                         !.nx.foundryDataFetchComplete = TRUE,
                         !.fetch = NoFetch ]
    /\ lastOp' = [op |-> "metricsResponse", args |-> <<ok>>]
    /\ UNCHANGED <<now, nextId, result, drv, page, hookVars>>

\* the match effect
matchEffect ==
    /\ stats.todo # <<>> /\ Head(stats.todo) = "match"
    /\ LET closure == stats.st
           done == [ stats EXCEPT !.todo = Tail(@) ]
       IN  IF ~Has(closure.foundryKeystrokeData) \/ ~closure.isLoading \/ closure.matchFound
           THEN stats' = done
           ELSE IF Val(closure.foundryKeystrokeData).holds = "match"
           THEN stats' = [ done EXCEPT
                             !.nx.noMatchFound = FALSE,
                             !.nx.matchFound = TRUE,
                             !.nx.isLoading = FALSE,
                             !.nx.foundryDataFetchComplete = TRUE,
                             !.nx.retryCount = 0 ]
           ELSE /\ closure.retryCount < maxRetries - 1 => stats.matchTimers < MaxTimers
                /\ stats' =
                     [ done EXCEPT
                         !.nx = matchRetry(@, closure.retryCount,
                                           Val(closure.foundryKeystrokeData).holds),
                         !.matchTimers =
                             IF closure.retryCount < maxRetries - 1 THEN @ + 1 ELSE @ ]
    /\ lastOp' = [op |-> "matchEffect", args |-> <<>>]
    /\ UNCHANGED <<now, nextId, result, drv, page, hookVars>>

\* the timer armed by the catch block of fetchFoundryData fires
fetchTimerFires ==
    /\ stats.todo = <<>>
    /\ stats.fetchTimer
    /\ stats.nx.retryCount < MaxRetryCount
    /\ stats' = [ stats EXCEPT !.fetchTimer = FALSE, !.nx.retryCount = @ + 1 ]
    /\ lastOp' = [op |-> "fetchTimer", args |-> <<>>]
    /\ UNCHANGED <<now, nextId, result, drv, page, hookVars>>

\* a timer armed by the match effect fires
matchTimerFires ==
    /\ stats.todo = <<>>
    /\ stats.matchTimers > 0
    /\ stats.nx.retryCount < MaxRetryCount
    /\ stats' = [ stats EXCEPT !.matchTimers = @ - 1, !.nx.retryCount = @ + 1 ]
    /\ lastOp' = [op |-> "matchTimer", args |-> <<>>]
    /\ UNCHANGED <<now, nextId, result, drv, page, hookVars>>

statsRender ==
    /\ stats.todo = <<>>
    /\ stats.nx # stats.st
    /\ stats' = [ stats EXCEPT !.st = stats.nx,
                               !.todo = statsEffectsDue(stats.st, stats.nx) ]
    /\ UNCHANGED <<now, lastOp, nextId, result, drv, page, hookVars>>

StatsNext ==
    \/ fetchEffect
    \/ matchEffect
    \/ statsRender
    \/ \E response \in Responses : statsResponse(response)
    \/ \E ok \in BOOLEAN : metricsResponse(ok)
    \/ fetchTimerFires
    \/ matchTimerFires

StatsSpec == StatsInit /\ [][StatsNext]_vars

\* ---------------------------------------------------------------- properties
IsTerminal(m) == m.completionStatus \in Outcomes

Ids(keystrokes) == [ i \in 1..Len(keystrokes) |-> keystrokes[i].id ]

\* the finalize fields of a session
FinalFields(m) == <<m.endTime, m.duration, m.completionStatus, m.userTranscript>>

\* C1: a completeSession call made when the rendered session is already completed or
\* abandoned leaves endTime, duration, completionStatus and userTranscript of the
\* session as the first call set them.
C1_SecondFinalizeRejected ==
    [][ ( /\ lastOp'.op = "completeSession"
          /\ Has(st.sessionMetadata)
          /\ IsTerminal(Val(st.sessionMetadata))
          /\ nx.sessionMetadata = st.sessionMetadata )
        => /\ Has(nx'.sessionMetadata)
           /\ FinalFields(Val(nx'.sessionMetadata)) = FinalFields(Val(st.sessionMetadata))
      ]_vars

\* C2: while the rendered session is completed or abandoned (and no other session is
\* pending), no step makes the session's keystroke log longer.
C2_NoAppendWhenTerminal ==
    [][ ( /\ Has(st.sessionMetadata)
          /\ IsTerminal(Val(st.sessionMetadata))
          /\ nx.sessionMetadata = st.sessionMetadata
          /\ nx'.sessionMetadata = nx.sessionMetadata )
        => Len(nx'.keystrokes) <= Len(nx.keystrokes)
      ]_vars

\* C3: generateSessionData returns a TypingSessionData only for metadata whose
\* completionStatus is completed or abandoned.
C3_AssembleNeedsTerminal ==
    (lastOp.op = "generateSessionData" /\ Has(result))
        => IsTerminal(Val(result).metadata)

DelaysChained(keystrokes) ==
    \A i \in 1..Len(keystrokes) :
        keystrokes[i].interKeyDelay =
            IF i = 1 THEN None
            ELSE Some(keystrokes[i].timestamp - keystrokes[i-1].timestamp)

\* C5: in every rendered log, record 0 has interKeyDelay null and every later record
\* has interKeyDelay = its timestamp minus the timestamp of the record before it.
C5_DelaysChained == DelaysChained(st.keystrokes)

\* C6: while the session is in progress, the log holds exactly the records of the
\* captureKeystroke calls made on it, one per call, in call order; so does the
\* rendered log once the queued updates are committed.
C6_LogIsCallOrder ==
    (Has(nx.sessionMetadata) /\ ~IsTerminal(Val(nx.sessionMetadata)))
        => /\ Ids(nx.keystrokes) = captured
           /\ Cardinality({ captured[i] : i \in 1..Len(captured) }) = Len(captured)
           /\ (st = nx => Ids(st.keystrokes) = captured)

C6_Witness ==
    /\ Has(st.sessionMetadata) /\ Has(nx.sessionMetadata)
    /\ ~IsTerminal(Val(nx.sessionMetadata))
    /\ st.keystrokes = <<>>
    /\ Len(nx.keystrokes) >= 2
    /\ Len(captured) >= 2

\* C7: the record completeSession returns holds every keystroke captured before the
\* call, and its metrics count all of them.
C7_CompleteOverFullLog ==
    (lastOp.op = "completeSession" /\ Has(result))
        => /\ Ids(Val(result).keystrokes) = captured
           /\ Val(result).metrics = calculateMetrics(nx.keystrokes, Val(result).metadata)

\* C8: every record made by recordKeystroke has interKeyDelay null or >= 0.
C8_DelayNonNegative ==
    \A i \in 1..Len(drv.keystrokes) :
        Has(drv.keystrokes[i].interKeyDelay) => Val(drv.keystrokes[i].interKeyDelay) >= 0

\* C9: finalizeSession on an in-progress session returns metadata with endTime = the
\* clock value read, duration = endTime - startTime, completionStatus = the outcome
\* passed and userTranscript = the transcript passed.
C9_FinalizeSetsFields ==
    (lastOp.op = "finalizeSession" /\ lastOp.args[3] = "in-progress")
        => /\ Has(result)
           /\ LET m == Val(result)
              IN  /\ m.endTime = Some(now)
                  /\ m.duration = Some(now - m.startTime)
                  /\ m.completionStatus = lastOp.args[2]
                  /\ m.userTranscript = lastOp.args[1]
                  /\ drv.sessionMetadata = Some(m)

C9_Witness ==
    /\ lastOp.op = "finalizeSession"
    /\ lastOp.args = <<"ab", "abandoned", "in-progress">>
    /\ Len(drv.keystrokes) >= 1
    /\ Val(drv.sessionMetadata).duration = Some(1)

\* in-progress exactly when endTime and duration are null; both set otherwise
StatusMatchesTimes(m) ==
    /\ (m.completionStatus = "in-progress") <=> (m.endTime = None /\ m.duration = None)
    /\ IsTerminal(m) => (Has(m.endTime) /\ Has(m.duration))

\* C10: in every state of the hook, each session metadata it holds (rendered, pending,
\* or inside the assembled record) is in-progress exactly when endTime and duration
\* are null, and a terminal status comes with both set.
C10_StatusMatchesTimes ==
    /\ \A s \in {st, nx} :
         /\ Has(s.sessionMetadata) => StatusMatchesTimes(Val(s.sessionMetadata))
         /\ Has(s.sessionData) => StatusMatchesTimes(Val(s.sessionData).metadata)
    /\ (lastOp.op = "completeSession" /\ Has(result))
           => StatusMatchesTimes(Val(result).metadata)

C10_Witness ==
    /\ Has(st.sessionMetadata) /\ Has(nx.sessionMetadata)
    /\ Val(st.sessionMetadata).completionStatus = "abandoned"
    /\ Val(nx.sessionMetadata).completionStatus = "in-progress"
    /\ Has(st.sessionData)

\* C11: once the rendered session is completed or abandoned, the pending metadata of
\* the same sessionId keeps the completionStatus, endTime, duration and
\* userTranscript it was finalized with, whatever the hook is asked to do next.
C11_TerminalIsFinal ==
    ( /\ Has(st.sessionMetadata) /\ IsTerminal(Val(st.sessionMetadata))
      /\ Has(nx.sessionMetadata)
      /\ Val(nx.sessionMetadata).sessionId = Val(st.sessionMetadata).sessionId )
        => FinalFields(Val(nx.sessionMetadata)) = FinalFields(Val(st.sessionMetadata))

\* the fields initializeSession sets for good
InitFields(m) == <<m.sessionId, m.startTime, m.textPrompt, m.deviceInfo>>

\* every session metadata the hook holds: rendered, pending, inside the assembled
\* records and in the record completeSession returned
HeldMetadata ==
    { Val(s.sessionMetadata) : s \in { x \in {st, nx} : Has(x.sessionMetadata) } }
    \cup { Val(s.sessionData).metadata : s \in { x \in {st, nx} : Has(x.sessionData) } }
    \cup (IF lastOp.op = "completeSession" /\ Has(result)
          THEN {Val(result).metadata} ELSE {})

\* C12: all metadata held for one sessionId carry the same sessionId, startTime,
\* textPrompt and deviceInfo: captureKeystroke and finalizeSession leave the four as
\* initializeSession set them, and the assembled record carries them.
C12_InitFieldsStable ==
    \A m1, m2 \in HeldMetadata :
        m1.sessionId = m2.sessionId => InitFields(m1) = InitFields(m2)

C12_Witness ==
    /\ lastOp.op = "completeSession" /\ Has(result)
    /\ Has(st.sessionMetadata)
    /\ Val(st.sessionMetadata).completionStatus = "in-progress"
    /\ Len(st.keystrokes) >= 1
    /\ Val(result).metadata.completionStatus = "abandoned"
    /\ Val(result).metadata.endTime # Some(Val(st.sessionMetadata).startTime)
    /\ InitFields(Val(result).metadata) = InitFields(Val(st.sessionMetadata))

\* C13: a recorded keystroke is correct exactly when a key is expected and it is the
\* key typed; where expectedKey is null the keystroke is incorrect whatever the key.
C13_CorrectIffExpected ==
    \A i \in 1..Len(drv.keystrokes) :
        LET k == drv.keystrokes[i]
        IN  /\ k.isCorrect <=> (Has(k.expectedKey) /\ Val(k.expectedKey) = k.key)
            /\ ~Has(k.expectedKey) => ~k.isCorrect

C13_Witness ==
    /\ lastOp.op = "recordKeystroke"
    /\ \E i, j, l \in 1..Len(drv.keystrokes) :
         /\ drv.keystrokes[i].isCorrect
         /\ ~drv.keystrokes[j].isCorrect /\ Has(drv.keystrokes[j].expectedKey)
         /\ ~drv.keystrokes[l].isCorrect /\ ~Has(drv.keystrokes[l].expectedKey)

\* the keystrokes of the driver's log that calculateMetrics counts
Counted == typingKeystrokes(drv.keystrokes)

Computed == lastOp.op = "calculateMetrics" /\ Has(result)

\* C15: in every metrics record the correct and the error keystrokes add up to the
\* total, the accuracy lies between 0 and 100, and with a keystroke counted it is
\* correct / total * 100: 100 when all are correct, 0 when none is.
C15_AccuracyFromCounts ==
    Computed =>
        LET r == Val(result)
        IN  /\ r.correctKeystrokes + r.errorKeystrokes = r.totalKeystrokes
            /\ r.errorKeystrokes = r.totalKeystrokes - r.correctKeystrokes
            /\ NumLe(NumZero, r.accuracy) /\ NumLe(r.accuracy, Num(100))
            /\ r.totalKeystrokes > 0 =>
                 /\ r.accuracy
                      = NumTimes(NumDiv(r.correctKeystrokes, r.totalKeystrokes), 100)
                 /\ r.correctKeystrokes = r.totalKeystrokes => r.accuracy = Num(100)
                 /\ r.correctKeystrokes = 0 => IsZero(r.accuracy)

C15_Witness ==
    /\ Computed
    /\ Val(result).totalKeystrokes = 3
    /\ Val(result).correctKeystrokes = 1
    /\ ~NumLe(Val(result).accuracy, Num(33))
    /\ NumLe(Val(result).accuracy, Num(34))

\* C16: with no keystroke counted (an empty log, or a log of which none passes the
\* filter) every numeric metric is 0 and problemKeys is empty, whatever the duration.
C16_ZeroInput ==
    (Computed /\ Counted = <<>>) =>
        LET r == Val(result)
        IN  /\ r.wpm = RatZero
            /\ IsZero(r.accuracy)
            /\ IsZero(r.errorRate)
            /\ r.totalKeystrokes = 0
            /\ r.correctKeystrokes = 0
            /\ r.errorKeystrokes = 0
            /\ r.consistency = Sqrt(RatZero)
            /\ DOMAIN r.problemKeys = {}

C16_Witness ==
    /\ Computed
    /\ Counted = <<>>
    /\ Len(drv.keystrokes) >= 2
    /\ TruthyNum(Val(drv.sessionMetadata).duration)
    /\ Val(Val(drv.sessionMetadata).duration) > 0

\* C17: with a duration above 0, wpm is (total / 5) / (duration / 60000), so
\* wpm * 5 * duration = total * 60000; with a duration that is null, 0 or negative
\* wpm is 0; 300 counted keystrokes in 60000 ms are 60 words per minute.
C17_WordsPerMinute ==
    /\ wpm(300, durationMinutes([duration |-> Some(60000)])) = Rat(60, 1)
    /\ Computed =>
         LET r == Val(result)
             duration == Val(drv.sessionMetadata).duration
         IN  IF Has(duration) /\ Val(duration) > 0
             THEN /\ r.wpm.d > 0
                  /\ r.wpm.n * 5 * Val(duration) = r.totalKeystrokes * 60000 * r.wpm.d
             ELSE r.wpm = RatZero

C17_Witness ==
    /\ Computed
    /\ Val(result).totalKeystrokes = 3
    /\ Val(drv.sessionMetadata).duration = Some(1)
    /\ Val(result).wpm = Rat(36000, 1)

One == Num(1)
Hundred == Num(100)
NextToHundred == {NumDown(Hundred), NumUp(Hundred)}

\* errorRate * 100 + accuracy, evaluated as the language evaluates it
RatePlusAccuracy(r) == NumPlus(NumTimes(r.errorRate, 100), r.accuracy)

\* errorRate is error / total with a keystroke counted and 0 without, and lies
\* between 0 and 1
ErrorRateFromCounts(r) ==
    /\ r.errorRate = IF r.totalKeystrokes > 0
                     THEN NumDiv(r.errorKeystrokes, r.totalKeystrokes)
                     ELSE NumZero
    /\ r.errorKeystrokes = 0 <=> IsZero(r.errorRate)
    /\ r.errorKeystrokes = r.totalKeystrokes /\ r.totalKeystrokes > 0
           => r.errorRate = One
    /\ NumLe(NumZero, r.errorRate) /\ NumLe(r.errorRate, One)

\* C18 as claimed: errorRate is error / total (0 with nothing counted), lies between
\* 0 and 1, and errorRate * 100 + accuracy is 100 whenever a keystroke is counted.
C18_RateComplementsAccuracy ==
    Computed =>
        /\ ErrorRateFromCounts(Val(result))
        /\ Val(result).totalKeystrokes > 0
               => RatePlusAccuracy(Val(result)) = Hundred

\* C18: errorRate is error / total (0 with nothing counted), lies between 0 and 1,
\* and whenever a keystroke is counted errorRate * 100 + accuracy is 100 or one of
\* the two numbers next to 100: the quotients are rounded, so the sum may miss 100
\* by 2^-46.
C18_RateNearlyComplementsAccuracy ==
    Computed =>
        /\ ErrorRateFromCounts(Val(result))
        /\ Val(result).totalKeystrokes > 0
               => RatePlusAccuracy(Val(result))
                      \in {Hundred} \cup NextToHundred

C18_Witness ==
    /\ Computed
    /\ Val(result).totalKeystrokes = 3
    /\ Val(result).errorKeystrokes = 2
    /\ RatePlusAccuracy(Val(result)) \in NextToHundred

\* the non-null delays of the counted keystrokes of the driver's log, their number
\* and their sum
CountedDelays ==
    LET withDelay == SelectSeq(Counted, LAMBDA k : Has(k.interKeyDelay))
    IN  [i \in 1..Len(withDelay) |-> Val(withDelay[i].interKeyDelay)]

RECURSIVE SumOf(_)
SumOf(ns) == IF ns = <<>> THEN 0 ELSE ns[1] + SumOf(Tail(ns))

ErrorsTyping(key) ==
    Cardinality({ i \in 1..Len(Counted) :
                    Counted[i].key = key /\ ~Counted[i].isCorrect })

\* C20: problemKeys maps each typed key to the number of counted keystrokes that
\* typed it and were incorrect; a key typed without error is absent; a wrong key is
\* counted under itself, not under the key that was expected.
C20_ProblemKeysByTypedKey ==
    Computed =>
        LET problems == Val(result).problemKeys
            typed == { Counted[i].key : i \in 1..Len(Counted) }
            expected == { Val(Counted[i].expectedKey) :
                            i \in { j \in 1..Len(Counted) : Has(Counted[j].expectedKey) } }
        IN  /\ DOMAIN problems \subseteq typed
            /\ \A key \in typed \cup expected :
                 IF ErrorsTyping(key) = 0
                 THEN key \notin DOMAIN problems
                 ELSE key \in DOMAIN problems /\ problems[key] = ErrorsTyping(key)

C20_Witness ==
    /\ Computed
    /\ Len(Counted) = 3
    /\ \E i \in 1..3 : Counted[i].isCorrect /\ Counted[i].key = "a"
    /\ DOMAIN Val(result).problemKeys = {"b"}
    /\ Val(result).problemKeys["b"] = 2

Assembled == lastOp.op = "generateSessionData" /\ Has(result)

\* a keystroke of one character recorded under the action type the metrics read
IsTyping(k) == k.key \in {"a", "b"} /\ k.actionType = "keypress"

C22_KeydownCounted ==
    Computed =>
        LET keydowns == { i \in 1..Len(drv.keystrokes) :
                            /\ drv.keystrokes[i].actionType = "keydown"
                            /\ drv.keystrokes[i].key \in {"a", "b"} }
        IN  /\ Val(result).totalKeystrokes >= Cardinality(keydowns)
            /\ \A i \in keydowns :
                 ~drv.keystrokes[i].isCorrect
                     => drv.keystrokes[i].key \in DOMAIN Val(result).problemKeys

\* C23: the record generateSessionData returns has the metadata it was given, the
\* log it was given in the same order, the metrics calculateMetrics gives for the
\* two, and nothing else; a session abandoned after three appends is assembled as
\* abandoned with its three keystrokes.
C23_AssembledFromArguments ==
    Assembled =>
        LET r == Val(result)
        IN  /\ DOMAIN r = {"metadata", "keystrokes", "metrics"}
            /\ r.metadata = Val(drv.sessionMetadata)
            /\ Len(r.keystrokes) = Len(drv.keystrokes)
            /\ \A i \in 1..Len(drv.keystrokes) : r.keystrokes[i] = drv.keystrokes[i]
            /\ r.metrics = calculateMetrics(drv.keystrokes, Val(drv.sessionMetadata))

C23_Witness ==
    /\ Assembled
    /\ Val(result).metadata.completionStatus = "abandoned"
    /\ Val(result).metadata.endTime = Some(2)
    /\ Len(Val(result).keystrokes) = 3
    /\ Val(result).keystrokes[1].id < Val(result).keystrokes[3].id
    /\ Val(result).metrics.totalKeystrokes = 3

\* the sum of the values of f over keys
RECURSIVE SumOver(_, _)
SumOver(f, keys) ==
    IF keys = {} THEN 0
    ELSE LET key == CHOOSE k \in keys : TRUE
         IN  f[key] + SumOver(f, keys \ {key})

\* C26: the values of problemKeys add up to errorKeystrokes, and each is at least 1.
C26_ProblemKeysSumToErrors ==
    Computed =>
        LET r == Val(result)
        IN  /\ SumOver(r.problemKeys, DOMAIN r.problemKeys) = r.errorKeystrokes
            /\ \A key \in DOMAIN r.problemKeys : r.problemKeys[key] >= 1

C26_Witness ==
    /\ Computed
    /\ Val(result).errorKeystrokes = 3
    /\ DOMAIN Val(result).problemKeys = {"a", "b"}
    /\ Val(result).problemKeys["b"] = 2

\* the state the [textPrompt] effect queues: a session in progress, nothing logged
FreshSession(state) ==
    /\ Has(state.sessionMetadata)
    /\ Val(state.sessionMetadata).completionStatus = "in-progress"
    /\ Val(state.sessionMetadata).textPrompt = textPrompt
    /\ state.keystrokes = <<>>
    /\ state.lastKeystrokeTime = None
    /\ state.sessionData = None

\* C24: a change of textPrompt to a non-empty value queues a fresh session; from then on
\* the queued log holds only keystrokes captured since the change, and its first record
\* has interKeyDelay null, whichever render's captureKeystroke appended it.
C24_FreshSessionOnPromptChange ==
    /\ (lastOp.op = "changePrompt" /\ textPrompt # "") => FreshSession(nx)
    /\ \A i \in 1..Len(nx.keystrokes) :
         \E j \in 1..Len(captured) : nx.keystrokes[i].id = captured[j]
    /\ nx.keystrokes # <<>> => nx.keystrokes[1].interKeyDelay = None

\* C25: the sessionId the hook returns is null or the sessionId of the returned
\* sessionMetadata, and returned sessionData carries the sessionId of the returned
\* sessionMetadata.
C25_IdsOfCurrentSession ==
    /\ Has(st.sessionId) =>
         /\ Has(st.sessionMetadata)
         /\ Val(st.sessionId) = Val(st.sessionMetadata).sessionId
    /\ Has(st.sessionData) =>
         /\ Has(st.sessionMetadata)
         /\ Val(st.sessionData).metadata.sessionId = Val(st.sessionMetadata).sessionId

\* currentPosition is the length of userInput, and not negative
PositionIsLength(state) ==
    /\ state.currentPosition = Len(state.userInput)
    /\ state.currentPosition >= 0

\* a step that handles a keydown of key
KeyDownStep(key) ==
    /\ Settled
    /\ lastOp' = [op |-> "handleKeyDown", args |-> <<key>>]
    /\ page'.st = page.st
    /\ page'.todo = <<>>

\* C27: in the rendered and in the queued state of TypingTest, currentPosition is the
\* length of userInput and is not negative; a Backspace keydown on empty input leaves
\* userInput and currentPosition as they are.
C27_PositionIsInputLength ==
    [][ /\ PositionIsLength(page'.st)
        /\ PositionIsLength(page'.nx)
        /\ (KeyDownStep("Backspace") /\ page.st.userInput = <<>>)
             => /\ page'.nx.userInput = <<>>
                /\ page'.nx.currentPosition = page.st.currentPosition
      ]_vars

C27_Witness ==
    /\ lastOp = [op |-> "handleKeyDown", args |-> <<"Backspace">>]
    /\ Settled
    /\ page.st.text # <<>>
    /\ page.st.userInput = <<>>
    /\ page.st.currentPosition = 0
    /\ page.st.startTime = None

\* C28: once testComplete is rendered, a single-character or Backspace keydown leaves
\* userInput, currentPosition and startTime as they are and does not activate the
\* test; currentPosition never exceeds the length of the text.
C28_CompleteIgnoresKeys ==
    [][ /\ \A key \in Keys \ {"Escape", "Tab"} :
             (KeyDownStep(key) /\ page.st.testComplete)
                => /\ page'.nx.userInput = page.st.userInput
                   /\ page'.nx.currentPosition = page.st.currentPosition
                   /\ page'.nx.startTime = page.st.startTime
                   /\ ~page'.nx.isActive
        /\ page'.nx.text = page'.st.text
             => page'.nx.currentPosition <= Len(page'.nx.text)
      ]_vars

\* the state resetTest leaves, whatever text it picked
InitialPage(state) ==
    /\ state.userInput = <<>>
    /\ state.startTime = None
    /\ state.wordCount = 0
    /\ state.accuracy = 100
    /\ state.errors = 0
    /\ state.currentPosition = 0
    /\ ~state.isActive
    /\ ~state.testComplete

\* the last event was a reset: the button, or Escape
AfterReset ==
    \/ lastOp.op = "resetTest"
    \/ lastOp = [op |-> "handleKeyDown", args |-> <<"Escape">>]

\* C29: once resetTest has run, by the button or by Escape, and until the next key is
\* handled, the queued and then the rendered state are the initial one, through every
\* effect and render that follows the reset.
C29_ResetRestoresInitial ==
    AfterReset =>
        /\ InitialPage(page.nx)
        /\ (page.nx # page.st \/ InitialPage(page.st))

C29_Witness ==
    /\ lastOp.op = "resetTest"
    /\ page.st = page.nx
    /\ InitialPage(page.st)
    /\ page.todo = <<"startTimer", "metrics">>

\* C30: retryCount of TypingStats, rendered or queued, never exceeds maxRetries - 1,
\* whichever retry timers fire and in whatever order.
C30_RetriesBounded ==
    /\ stats.nx.retryCount <= maxRetries - 1
    /\ stats.st.retryCount <= maxRetries - 1

====
